---------------------------- MODULE Spec2Model ----------------------------
(***************************************************************************)
(* Simon Says (src/src/index.js): the turn state machine, its event        *)
(* handlers and its timer callbacks.                                       *)
(*                                                                         *)
(* The page runs single-threaded: every handler and every timer callback   *)
(* runs to completion, so each is one action.  Time is counted in ticks of *)
(* TickMs milliseconds; a timer fires when its remaining delay is 0, time  *)
(* does not pass while a timer is due, and timers due together fire in     *)
(* the order they were registered.  Clicks may arrive at any moment.       *)
(***************************************************************************)
EXTENDS Integers, Sequences, FiniteSets, TLC

(***************************************************************************)
(* Bounds of the model.                                                    *)
(***************************************************************************)
\* The largest roundCount a click may produce.
MaxRound == 3
\* The most computer turns a click may leave in flight: pending delayed
\* playComputerTurn callbacks plus pending playHumanTurn handoffs.
MaxInFlight == 2
\* The most pad-flash removals a click may leave pending.
MaxFlash == 1
\* Math.random() is drawn from { u / RandomScale : u \in 0..RandomScale-1 }.
RandomScale == 2
\* The numeric level identifiers tried are 0..MaxLevelInput.
MaxLevelInput == 5
\* The largest roundCount a click may produce while setLevel is called directly.
ApiRounds == 2
\* The most computer turns a click may leave in flight meanwhile.
ApiInFlight == 1
\* A collection handed to getRandomItem directly has at most MaxItems items.
MaxItems == 2

(***************************************************************************)
(* Program constants.                                                      *)
(***************************************************************************)
PadFlashMs == 500
StepMs == 600
HandoffExtraMs == 1000
NextTurnMs == 1000

RECURSIVE GCD(_, _)
GCD(a, b) == IF b = 0 THEN a ELSE GCD(b, a % b)

\* The resolution of the clock: the largest tick every delay is a multiple of.
TickMs == GCD(GCD(PadFlashMs, StepMs), GCD(HandoffExtraMs, NextTurnMs))

Ticks(ms) == ms \div TickMs

(***************************************************************************)
(* JavaScript values, as far as setLevel and maxRoundCount need them.      *)
(***************************************************************************)
Num(n) == [type |-> "number", num |-> n, str |-> ""]
Str(s) == [type |-> "string", num |-> 0, str |-> s]
Fn(name) == [type |-> "function", num |-> 0, str |-> name]
Undefined == [type |-> "undefined", num |-> 0, str |-> ""]
Obj(name) == [type |-> "object", num |-> 0, str |-> name]

\* ToBoolean
Truthy(v) ==
    CASE v.type = "number" -> v.num # 0
      [] v.type = "string" -> v.str # ""
      [] v.type = "function" -> TRUE
      [] v.type = "object" -> TRUE
      [] OTHER -> FALSE

Digit == <<"0", "1", "2", "3", "4", "5", "6", "7", "8", "9">>

RECURSIVE NatToString(_)
NatToString(n) ==
    IF n < 10 THEN Digit[n + 1] ELSE NatToString(n \div 10) \o Digit[(n % 10) + 1]

\* ToPropertyKey: the string a value becomes when it indexes an object.
ToPropertyKey(v) ==
    CASE v.type = "number" ->
           IF v.num < 0 THEN "-" \o NatToString(-v.num) ELSE NatToString(v.num)
      [] v.type = "string" -> v.str
      [] OTHER -> v.type

(***************************************************************************)
(* The pads, and the messages.                                             *)
(***************************************************************************)
pads == <<"red", "green", "blue", "yellow">>

PadColors == {pads[i] : i \in 1..Len(pads)}

LevelMessage == "Please enter level 1, 2, 3, or 4"
LossMessage == "Wrong pad! Game over."
WinMessage == "You win! Great memory!"

\* The own properties of the object literal levelMap.
levelMap == ("1" :> 8) @@ ("2" :> 14) @@ ("3" :> 20) @@ ("4" :> 31)

\* What an object literal inherits from Object.prototype.
ObjectPrototypeKeys ==
    {"constructor", "hasOwnProperty", "isPrototypeOf", "propertyIsEnumerable",
     "toLocaleString", "toString", "valueOf", "__proto__"}

\* levelMap[level]: own properties first, then the prototype chain.
LevelMapGet(level) ==
    LET key == ToPropertyKey(level)
    IN  IF key \in DOMAIN levelMap THEN Num(levelMap[key])
        ELSE IF key \in ObjectPrototypeKeys THEN Fn(key)
        ELSE Undefined

(***************************************************************************)
(* State.                                                                  *)
(***************************************************************************)
VARIABLES
    computerSequence,  \* colors the computer has generated
    playerSequence,    \* colors the player has entered this round
    maxRoundCount,     \* a JavaScript value: rounds needed to win
    roundCount,        \* current round number
    startHidden,       \* startButton has class "hidden"
    statusHidden,      \* statusSpan has class "hidden"
    unclickable,       \* padContainer has class "unclickable"
    heading,           \* heading.textContent
    status,            \* statusSpan.textContent
    activated,         \* the pads that have class "activated"
    timers,            \* pending setTimeout callbacks, in registration order
    obs                \* what the last operation did (observation only)

vars == <<computerSequence, playerSequence, maxRoundCount, roundCount,
          startHidden, statusHidden, unclickable, heading, status,
          activated, timers, obs>>

\* The state as one value, so that a handler is a function from state to state.
Cur ==
    [computerSequence |-> computerSequence, playerSequence |-> playerSequence,
     maxRoundCount |-> maxRoundCount, roundCount |-> roundCount,
     startHidden |-> startHidden, statusHidden |-> statusHidden,
     unclickable |-> unclickable, heading |-> heading, status |-> status,
     activated |-> activated, timers |-> timers, obs |-> obs]

Becomes(s) ==
    \E next \in {s} :
       /\ computerSequence' = next.computerSequence
       /\ playerSequence' = next.playerSequence
       /\ maxRoundCount' = next.maxRoundCount
       /\ roundCount' = next.roundCount
       /\ startHidden' = next.startHidden
       /\ statusHidden' = next.statusHidden
       /\ unclickable' = next.unclickable
       /\ heading' = next.heading
       /\ status' = next.status
       /\ activated' = next.activated
       /\ timers' = next.timers
       /\ obs' = next.obs


(***************************************************************************)
(* Timers.  A pending callback is [kind, color, index, turn, rem, stale]:  *)
(* kind is "deactivate" (remove "activated" from pad color), "step"        *)
(* (activatePad(color), the playback step at index), "handoff"             *)
(* (playHumanTurn) or "computerTurn" (the delayed playComputerTurn); rem   *)
(* is the delay left, in ticks.  turn and stale are observations: turn     *)
(* tells the playComputerTurn call that registered a step or a handoff,    *)
(* stale tells that resetGame ran after the callback was registered.       *)
(***************************************************************************)
NoTimer ==
    [kind |-> "none", color |-> "", index |-> 0, turn |-> 0, rem |-> 0,
     stale |-> FALSE]

Timer(kind, color, index, turn, ms) ==
    [kind |-> kind, color |-> color, index |-> index, turn |-> turn,
     rem |-> Ticks(ms), stale |-> FALSE]

setTimeout(s, kind, color, index, turn, ms) ==
    [s EXCEPT !.timers = Append(@, Timer(kind, color, index, turn, ms))]

Pending(ts, kind) == {i \in 1..Len(ts) : ts[i].kind = kind}

\* The least turn number no pending callback carries.
NewTurn(ts) ==
    LET used == {ts[i].turn : i \in 1..Len(ts)}
    IN  CHOOSE k \in 1..(Len(ts) + 1) : k \notin used /\ \A j \in 1..(k - 1) : j \in used

\* What the last operation did; each operation starts from a clean record.
\* items is the collection of a direct getRandomItem call.
\* turn and turnBy outlive the operation: the latest playComputerTurn call and
\* the operation that made it.
Begin(op, arg) ==
    [Cur EXCEPT !.obs =
        [op |-> op, arg |-> arg, called |-> {}, alert |-> "",
         ret |-> Undefined, index |-> -1, remainingPresses |-> 0,
         soundErr |-> FALSE, timer |-> NoTimer, turn |-> @.turn,
         turnBy |-> @.turnBy, items |-> <<>>]]

called(s, name) == [s EXCEPT !.obs.called = @ \cup {name}]

(***************************************************************************)
(* Helper functions.                                                       *)
(***************************************************************************)
IntToString(n) == IF n < 0 THEN "-" \o NatToString(-n) ELSE NatToString(n)

\* A value inside a template literal.
ToJsString(v) ==
    CASE v.type = "number" -> IntToString(v.num)
      [] v.type = "string" -> v.str
      [] v.type = "function" -> "function " \o v.str \o "() { [native code] }"
      [] OTHER -> v.type

\* setLevel(level): what it returns and what maxRoundCount holds afterwards.
SetLevelResult(level, max) ==
    LET lv == IF level = Undefined THEN Num(1) ELSE level
        found == LevelMapGet(lv)
    IN  IF ~Truthy(found) THEN [ret |-> Str(LevelMessage), max |-> max]
        ELSE [ret |-> found, max |-> found]

setLevel(s, level) ==
    LET r == SetLevelResult(level, s.maxRoundCount)
    IN  [called(s, "setLevel") EXCEPT !.maxRoundCount = r.max, !.obs.ret = r.ret]

Null == "null"

\* getRandomItem(collection) that draws from pads whatever the collection.
getRandomItemFromPads(collection, u) ==
    pads[((u * Len(pads)) \div RandomScale) + 1]

\* getRandomItem(collection), with Math.random() = u / RandomScale.
getRandomItem(collection, u) ==
    IF Len(collection) = 0 THEN Null
    ELSE collection[((u * Len(collection)) \div RandomScale) + 1]

\* setText(element, text) on a single element (the only use in this file).
setText(s, element, text) ==
    IF element = "heading" THEN [s EXCEPT !.heading = text]
    ELSE [s EXCEPT !.status = text]

\* activatePad(color); soundOk tells whether pad.sound.play() succeeds.
activatePad(s, color, soundOk) ==
    IF color \notin PadColors THEN s
    ELSE LET s1 == [called(s, "activatePad") EXCEPT
                       !.activated = @ \cup {color},
                       !.obs.soundErr = @ \/ ~soundOk]
         IN  setTimeout(s1, "deactivate", color, 0, 0, PadFlashMs)

\* activatePads(sequence): one step per element, at (index + 1) * 600 ms.
activatePads(s, sequence, turn) ==
    [s EXCEPT !.timers = @ \o
        [i \in 1..Len(sequence) |->
            Timer("step", sequence[i], i - 1, turn, ((i - 1) + 1) * StepMs)]]

\* resetGame(text)
resetGame(s, text) ==
    LET s1 == [called(s, "resetGame") EXCEPT
                  !.computerSequence = <<>>,
                  !.playerSequence = <<>>,
                  !.roundCount = 0,
                  !.maxRoundCount = Num(0),
                  !.obs.alert = text,
                  !.timers = [i \in 1..Len(@) |-> [@[i] EXCEPT !.stale = TRUE]]]
        s2 == setText(s1, "heading", "Simon Says")
    IN  [s2 EXCEPT !.startHidden = FALSE, !.statusHidden = TRUE,
                   !.unclickable = TRUE]

\* playHumanTurn()
playHumanTurn(s) ==
    LET s1 == [called(s, "playHumanTurn") EXCEPT !.unclickable = FALSE]
        pressesLeft == Len(s1.computerSequence) - Len(s1.playerSequence)
    IN  setText(s1, "status",
                "Player's turn... " \o IntToString(pressesLeft) \o " presses left")

\* playComputerTurn() that plays back the new signal only.
playComputerTurnPlaysLast(s, u) ==
    LET turn == NewTurn(s.timers)
        s1 == [called(s, "playComputerTurn") EXCEPT
                  !.unclickable = TRUE, !.obs.turn = turn,
                  !.obs.turnBy = s.obs.op]
        s2 == setText(s1, "status", "The computer's turn...")
        s3 == setText(s2, "heading",
                      "Round " \o IntToString(s2.roundCount) \o " of "
                               \o ToJsString(s2.maxRoundCount))
        randomPad == getRandomItem(pads, u)
        s4 == [s3 EXCEPT !.computerSequence = Append(@, randomPad)]
        s5 == activatePads(s4, <<randomPad>>, turn)
    IN  setTimeout(s5, "handoff", "", 0, turn,
                   s5.roundCount * StepMs + HandoffExtraMs)

\* playComputerTurn() that never hands the turn over to the player.
playComputerTurnNoHandoff(s, u) ==
    LET turn == NewTurn(s.timers)
        s1 == [called(s, "playComputerTurn") EXCEPT
                  !.unclickable = TRUE, !.obs.turn = turn,
                  !.obs.turnBy = s.obs.op]
        s2 == setText(s1, "status", "The computer's turn...")
        s3 == setText(s2, "heading",
                      "Round " \o IntToString(s2.roundCount) \o " of "
                               \o ToJsString(s2.maxRoundCount))
        randomPad == getRandomItem(pads, u)
        s4 == [s3 EXCEPT !.computerSequence = Append(@, randomPad)]
    IN  activatePads(s4, s4.computerSequence, turn)

\* playComputerTurn(), with Math.random() = u / RandomScale.
playComputerTurn(s, u) ==
    LET turn == NewTurn(s.timers)
        s1 == [called(s, "playComputerTurn") EXCEPT
                  !.unclickable = TRUE, !.obs.turn = turn,
                  !.obs.turnBy = s.obs.op]
        s2 == setText(s1, "status", "The computer's turn...")
        s3 == setText(s2, "heading",
                      "Round " \o IntToString(s2.roundCount) \o " of "
                               \o ToJsString(s2.maxRoundCount))
        randomPad == getRandomItem(pads, u)
        s4 == [s3 EXCEPT !.computerSequence = Append(@, randomPad)]
        s5 == activatePads(s4, s4.computerSequence, turn)
    IN  setTimeout(s5, "handoff", "", 0, turn,
                   s5.roundCount * StepMs + HandoffExtraMs)

\* checkRound() with the win test one round early.
checkRoundEarlyWin(s) ==
    LET s0 == called(s, "checkRound")
    IN  IF Num(Len(s0.computerSequence) + 1) = s0.maxRoundCount
        THEN resetGame(s0, WinMessage)
        ELSE LET s1 == [s0 EXCEPT !.roundCount = @ + 1,
                                  !.playerSequence = <<>>]
                 s2 == setText(s1, "status", "Nice! Keep going!")
             IN  setTimeout(s2, "computerTurn", "", 0, 0, NextTurnMs)

\* checkRound()
checkRound(s) ==
    LET s0 == called(s, "checkRound")
    IN  IF Num(Len(s0.computerSequence)) = s0.maxRoundCount
        THEN resetGame(s0, WinMessage)
        ELSE LET s1 == [s0 EXCEPT !.roundCount = @ + 1,
                                  !.playerSequence = <<>>]
                 s2 == setText(s1, "status", "Nice! Keep going!")
             IN  setTimeout(s2, "computerTurn", "", 0, 0, NextTurnMs)

\* checkPress(color) that compares only once the whole round was entered.
checkPressBatched(s, color) ==
    LET s1 == [called(s, "checkPress") EXCEPT !.playerSequence = Append(@, color)]
        index == Len(s1.playerSequence) - 1
        remainingPresses == Len(s1.computerSequence) - Len(s1.playerSequence)
        s2 == [s1 EXCEPT !.obs.index = index,
                         !.obs.remainingPresses = remainingPresses]
        s3 == setText(s2, "status",
                      "Player's turn... " \o IntToString(remainingPresses)
                                          \o " presses left")
    IN  IF remainingPresses > 0 THEN s3
        ELSE IF s3.playerSequence # s3.computerSequence
        THEN resetGame(s3, LossMessage)
        ELSE checkRound(s3)

\* checkPress(color) that takes the round as complete one press early.
checkPressEagerRound(s, color) ==
    LET s1 == [called(s, "checkPress") EXCEPT !.playerSequence = Append(@, color)]
        index == Len(s1.playerSequence) - 1
        remainingPresses == Len(s1.computerSequence) - Len(s1.playerSequence)
        s2 == [s1 EXCEPT !.obs.index = index,
                         !.obs.remainingPresses = remainingPresses]
        s3 == setText(s2, "status",
                      "Player's turn... " \o IntToString(remainingPresses)
                                          \o " presses left")
        mismatch == \/ index + 1 > Len(s3.computerSequence)
                    \/ s3.playerSequence[index + 1] # s3.computerSequence[index + 1]
    IN  IF mismatch THEN resetGame(s3, LossMessage)
        ELSE IF remainingPresses <= 1 THEN checkRound(s3)
        ELSE s3

\* checkPress(color)
checkPress(s, color) ==
    LET s1 == [called(s, "checkPress") EXCEPT !.playerSequence = Append(@, color)]
        index == Len(s1.playerSequence) - 1
        remainingPresses == Len(s1.computerSequence) - Len(s1.playerSequence)
        s2 == [s1 EXCEPT !.obs.index = index,
                         !.obs.remainingPresses = remainingPresses]
        s3 == setText(s2, "status",
                      "Player's turn... " \o IntToString(remainingPresses)
                                          \o " presses left")
        mismatch == \/ index + 1 > Len(s3.computerSequence)
                    \/ s3.playerSequence[index + 1] # s3.computerSequence[index + 1]
    IN  IF mismatch THEN resetGame(s3, LossMessage)
        ELSE IF remainingPresses = 0 THEN checkRound(s3)
        ELSE s3

(***************************************************************************)
(* Event handlers.                                                         *)
(***************************************************************************)
\* startButtonHandler(), with Math.random() = u / RandomScale.
startButtonHandler(s, u) ==
    LET s1 == setLevel(s, Undefined)
        s2 == [s1 EXCEPT !.computerSequence = <<>>,
                         !.playerSequence = <<>>,
                         !.roundCount = 1,
                         !.startHidden = TRUE,
                         !.statusHidden = FALSE]
        s3 == playComputerTurn(s2, u)
    IN  [s3 EXCEPT !.obs.ret = Obj("{ startButton, statusSpan }")]

\* padHandler(event) that looks for no pad: any color present is evaluated.
padHandlerAnyColor(s, color, soundOk) ==
    IF color = "" THEN s
    ELSE LET s1 == [s EXCEPT !.obs.soundErr = ~soundOk,
                             !.activated = @ \cup {color}]
             s2 == setTimeout(s1, "deactivate", color, 0, 0, PadFlashMs)
             s3 == checkPress(s2, color)
         IN  [s3 EXCEPT !.obs.ret = Str(color)]

\* padHandler(event) without the try/catch around the sound: a failing
\* pad.sound.play() ends the handler there.
padHandlerSoundThrows(s, color, soundOk) ==
    IF color = "" THEN s
    ELSE IF color \notin PadColors THEN s
    ELSE IF ~soundOk THEN [s EXCEPT !.obs.soundErr = TRUE]
    ELSE LET s1 == [s EXCEPT !.obs.soundErr = ~soundOk,
                             !.activated = @ \cup {color}]
             s2 == setTimeout(s1, "deactivate", color, 0, 0, PadFlashMs)
             s3 == checkPress(s2, color)
         IN  [s3 EXCEPT !.obs.ret = Str(color)]

\* padHandler(event): color is event.target.dataset.color ("" when absent);
\* soundOk tells whether pad.sound.play() succeeds.
padHandler(s, color, soundOk) ==
    IF color = "" THEN s
    ELSE IF color \notin PadColors THEN s
    ELSE LET s1 == [s EXCEPT !.obs.soundErr = ~soundOk,
                             !.activated = @ \cup {color}]
             s2 == setTimeout(s1, "deactivate", color, 0, 0, PadFlashMs)
             s3 == checkPress(s2, color)
         IN  [s3 EXCEPT !.obs.ret = Str(color)]


(***************************************************************************)
(* The initial state.                                                      *)
(***************************************************************************)
\* The module's variables as declared.
InitGame ==
    /\ computerSequence = <<>>
    /\ playerSequence = <<>>
    /\ maxRoundCount = Num(0)
    /\ roundCount = 0
    /\ timers = <<>>

\* The page as loaded: the start button shown, the status hidden, the pads
\* not accepting input.
InitPage ==
    /\ startHidden = FALSE
    /\ statusHidden = TRUE
    /\ unclickable = TRUE
    /\ heading = "Simon Says"
    /\ status = ""
    /\ activated = {}

Init ==
    /\ InitGame
    /\ InitPage
    /\ obs = [op |-> "load", arg |-> Undefined, called |-> {}, alert |-> "",
              ret |-> Undefined, index |-> -1, remainingPresses |-> 0,
              soundErr |-> FALSE, timer |-> NoTimer, turn |-> 0,
              turnBy |-> "none", items |-> <<>>]

(***************************************************************************)
(* Inputs.                                                                 *)
(***************************************************************************)
RandomDraws == 0..(RandomScale - 1)

\* event.target.dataset.color: a pad's color, absent ("": the container
\* itself was clicked), or a color no pad has.
PadTargets == PadColors \cup {"", "purple"}

\* The argument of a direct setLevel call; Undefined is the call without one.
LevelInputs ==
    {Undefined} \cup {Num(n) : n \in 0..MaxLevelInput}
                \cup {Str("easy"), Str("constructor")}

\* The argument of a direct getRandomItem call: the pads (by color), and
\* every array of up to MaxItems items, of a pad color and of another string.
Items == {"red", "purple"}

Collections == {pads} \cup UNION {[1..n -> Items] : n \in 0..MaxItems}

(***************************************************************************)
(* Delivery of clicks.  The style sheet gives .hidden no box and           *)
(* .unclickable no pointer events, so a click reaches startButtonHandler   *)
(* only while the start button is shown and padHandler only while the pad  *)
(* container is clickable.                                                 *)
(***************************************************************************)
StartClickable == ~startHidden

PadsClickable == ~unclickable

\* A click is taken only if it keeps the model within its bounds.
WithinBounds(s, maxRound, maxInFlight) ==
    /\ s.roundCount <= maxRound
    /\ Cardinality(Pending(s.timers, "computerTurn"))
          + Cardinality(Pending(s.timers, "handoff")) <= maxInFlight
    /\ Cardinality(Pending(s.timers, "deactivate")) <= MaxFlash

(***************************************************************************)
(* Actions.                                                                *)
(***************************************************************************)
\* A click on the start button.
ClickStart(draws, maxInFlight) ==
    /\ StartClickable
    /\ \E u \in draws :
          LET s == startButtonHandler(Begin("startButtonHandler", Undefined), u)
          IN  /\ WithinBounds(s, s.roundCount, maxInFlight)
              /\ Becomes(s)

\* A click inside the pad container.
ClickPad(maxRound, maxInFlight) ==
    /\ PadsClickable
    /\ \E color \in PadTargets, soundOk \in BOOLEAN :
          LET s == padHandler(Begin("padHandler", Str(color)), color, soundOk)
          IN  /\ WithinBounds(s, maxRound, maxInFlight)
              /\ Becomes(s)

\* The callback that fires next: the first registered among those due.
Due == {i \in 1..Len(timers) : timers[i].rem = 0}

NextDue == CHOOSE i \in Due : \A j \in Due : i <= j

Without(ts, i) == SubSeq(ts, 1, i - 1) \o SubSeq(ts, i + 1, Len(ts))

\* The state in which the due callback of the given kind starts to run.
Fired(kind) ==
    LET s == Begin("timer:" \o kind, Undefined)
    IN  [s EXCEPT !.timers = Without(@, NextDue), !.obs.timer = timers[NextDue]]

IsDue(kind) == Due # {} /\ timers[NextDue].kind = kind

\* () => pad.selector.classList.remove("activated")
FireDeactivate ==
    /\ IsDue("deactivate")
    /\ LET s == Fired("deactivate")
       IN  Becomes([s EXCEPT !.activated = @ \ {timers[NextDue].color}])

\* () => activatePad(color)
FireStep ==
    /\ IsDue("step")
    /\ \E soundOk \in BOOLEAN :
          Becomes(activatePad(Fired("step"), timers[NextDue].color, soundOk))

\* () => playHumanTurn(roundCount)
FireHandoff ==
    /\ IsDue("handoff")
    /\ Becomes(playHumanTurn(Fired("handoff")))

\* () => playComputerTurn()
FireComputerTurn(draws) ==
    /\ IsDue("computerTurn")
    /\ \E u \in draws, s \in {Fired("computerTurn")} :
          Becomes(playComputerTurn(s, u))

\* One tick of the clock passes: no callback is due.
Tick ==
    /\ timers # <<>>
    /\ Due = {}
    /\ LET s == Begin("tick", Undefined)
       IN  Becomes([s EXCEPT !.timers = [i \in 1..Len(@) |-> [@[i] EXCEPT !.rem = @ - 1]]])

\* A direct call of the exported setLevel.
CallSetLevel ==
    \E level \in LevelInputs : Becomes(setLevel(Begin("setLevel", level), level))

\* A direct call of the exported getRandomItem, with Math.random() =
\* u / RandomScale; typeof null is "object".
CallGetRandomItem ==
    \E collection \in Collections, u \in RandomDraws :
       LET s == Begin("getRandomItem", Undefined)
           item == getRandomItem(collection, u)
       IN  Becomes([called(s, "getRandomItem") EXCEPT
                       !.obs.items = collection,
                       !.obs.ret = IF item = Null THEN Obj("null") ELSE Str(item)])

Next ==
    \/ ClickStart(RandomDraws, MaxInFlight)
    \/ ClickPad(MaxRound, MaxInFlight)
    \/ FireDeactivate
    \/ FireStep
    \/ FireHandoff
    \/ FireComputerTurn(RandomDraws)
    \/ Tick

\* The page in use.
Spec == Init /\ [][Next]_vars

\* The event loop at work: time passes and every callback that is due runs.
TimerStep ==
    \/ FireDeactivate
    \/ FireStep
    \/ FireHandoff
    \/ FireComputerTurn(RandomDraws)
    \/ Tick

\* The page in use, with the timers served: a callback registered with
\* setTimeout is eventually run, whatever the user does meanwhile.
SpecFair == Spec /\ WF_vars(TimerStep)

\* A whole game of level 1: every round up to the last can be played, and the
\* computer draws the first pad only.
WinRounds == levelMap["1"]

WinDraws == {0}

NextWin ==
    \/ ClickStart(WinDraws, MaxInFlight)
    \/ ClickPad(WinRounds, MaxInFlight)
    \/ FireDeactivate
    \/ FireStep
    \/ FireHandoff
    \/ FireComputerTurn(WinDraws)
    \/ Tick

SpecWin == Init /\ [][NextWin]_vars

\* The page in use, with setLevel also called directly at any moment.
NextApi ==
    \/ CallSetLevel
    \/ ClickStart(WinDraws, ApiInFlight)
    \/ ClickPad(ApiRounds, ApiInFlight)
    \/ FireDeactivate
    \/ FireStep
    \/ FireHandoff
    \/ FireComputerTurn(WinDraws)
    \/ Tick

SpecApi == Init /\ [][NextApi]_vars

\* A player who enters the presses in bursts: each click on a pad follows
\* the handoff or the click before it with no tick between.  A burst may
\* hold the presses of a round twice over, and may take the game one round
\* past the last.  A game is started only once every callback has run.
BurstFlash == 2 * (WinRounds - 1)

BurstRounds == WinRounds + 1

ClickPadBurst ==
    /\ PadsClickable
    /\ obs.op \in {"timer:handoff", "padHandler"}
    /\ \E color \in PadTargets, soundOk \in BOOLEAN :
          LET s == padHandler(Begin("padHandler", Str(color)), color, soundOk)
          IN  /\ s.roundCount <= BurstRounds
              /\ Cardinality(Pending(s.timers, "computerTurn"))
                    + Cardinality(Pending(s.timers, "handoff")) <= MaxInFlight
              /\ Cardinality(Pending(s.timers, "deactivate")) <= BurstFlash
              /\ Becomes(s)

\* A click on the start button of a page at rest: no callback is pending.
ClickStartAtRest ==
    /\ timers = <<>>
    /\ ClickStart(WinDraws, MaxInFlight)

NextBurst ==
    \/ ClickStartAtRest
    \/ ClickPadBurst
    \/ FireDeactivate
    \/ FireStep
    \/ FireHandoff
    \/ FireComputerTurn(WinDraws)
    \/ Tick

\* A whole game of level 1 and more, played in bursts.
SpecBurst == Init /\ [][NextBurst]_vars

\* The page in use, with getRandomItem also called directly at any moment.
NextItems ==
    \/ CallGetRandomItem
    \/ ClickStart(RandomDraws, ApiInFlight)
    \/ ClickPad(ApiRounds, ApiInFlight)
    \/ FireDeactivate
    \/ FireStep
    \/ FireHandoff
    \/ FireComputerTurn(RandomDraws)
    \/ Tick

SpecItems == Init /\ [][NextItems]_vars


(***************************************************************************)
(* Vocabulary of the properties.                                           *)
(***************************************************************************)
GameVars == <<computerSequence, playerSequence, roundCount, maxRoundCount>>

InitialGame ==
    /\ computerSequence = <<>>
    /\ playerSequence = <<>>
    /\ roundCount = 0
    /\ maxRoundCount = Num(0)

PendingOf(kind) == Pending(timers, kind)

\* The playback steps still pending of the computer turn numbered turn.
StepsOf(ts, turn) == {i \in Pending(ts, "step") : ts[i].turn = turn}

\* In the step taken, padHandler ran and evaluated the press (checkPress).
PressEvaluated == obs'.op = "padHandler" /\ "checkPress" \in obs'.called

\* The color of the press of the step taken.
Pressed == obs'.arg.str

\* The press of the step taken differs from computerSequence at the index
\* len(playerSequence) before the press (or there is no such element).
PressMismatches ==
    \/ Len(playerSequence) >= Len(computerSequence)
    \/ computerSequence[Len(playerSequence) + 1] # Pressed

\* No game is in progress: before a start and after a game over.
Idle == roundCount = 0

\* The latest computer turn is playing back: a step or its handoff is pending.
InPlayback ==
    \E i \in PendingOf("step") \cup PendingOf("handoff") : timers[i].turn = obs.turn

\* A round was completed and the next computer turn has not begun.
InDelay == PendingOf("computerTurn") # {}

\* The press of the step taken matches and is the last of the round.
PressCompletesRound ==
    /\ PressEvaluated
    /\ ~PressMismatches
    /\ Len(playerSequence) + 1 = Len(computerSequence)

(***************************************************************************)
(* C1: in every reachable state, and inside checkPress right after the     *)
(* pressed color was appended and before it is compared, playerSequence is *)
(* no longer than computerSequence.  (obs.remainingPresses is checkPress's *)
(* local: len(computerSequence) - len(playerSequence) after the append.)   *)
(***************************************************************************)
C1_PlayerNeverAhead ==
    /\ Len(playerSequence) <= Len(computerSequence)
    /\ "checkPress" \in obs.called => obs.remainingPresses >= 0

(***************************************************************************)
(* C2: a press that mismatches at its position ends the game in that same  *)
(* step: resetGame runs with the loss message, the four game variables are *)
(* back at their initial values, the start button is shown and the pads    *)
(* are unclickable.                                                        *)
(***************************************************************************)
C2_MismatchEndsGame ==
    [][(PressEvaluated /\ PressMismatches) =>
          /\ "resetGame" \in obs'.called
          /\ "checkRound" \notin obs'.called
          /\ obs'.alert = LossMessage
          /\ InitialGame'
          /\ ~startHidden'
          /\ unclickable']_vars

\* A first press of a round of two or more signals was wrong, and the game
\* ended on it.
C2_Witness ==
    /\ obs.op = "padHandler"
    /\ obs.alert = LossMessage
    /\ obs.index = 0
    /\ obs.remainingPresses >= 1

(***************************************************************************)
(* C3: a win is reported exactly when a press completes, without mismatch, *)
(* a round whose computerSequence length equals maxRoundCount; then        *)
(* resetGame runs with the win message and the four game variables are     *)
(* back at their initial values.                                           *)
(***************************************************************************)
C3_WinExactlyAtLastRound ==
    [][/\ obs'.alert = WinMessage <=>
             (PressCompletesRound /\ Num(Len(computerSequence)) = maxRoundCount)
       /\ obs'.alert = WinMessage =>
             /\ "resetGame" \in obs'.called
             /\ InitialGame'
             /\ ~startHidden'
             /\ unclickable']_vars

\* The player has just won a game of level 1.
C3_Witness ==
    /\ obs.op = "padHandler"
    /\ obs.alert = WinMessage
    /\ obs.index + 1 = levelMap["1"]


\* The scenario of C4: computerSequence = [red, blue], red was pressed, and
\* the step taken is the press of blue.
C4_Scenario ==
    /\ computerSequence = <<"red", "blue">>
    /\ playerSequence = <<"red">>
    /\ PressEvaluated
    /\ Pressed = "blue"

(***************************************************************************)
(* C4 (as amended): a press that completes a round whose length is not     *)
(* maxRoundCount increments roundCount by exactly one, clears              *)
(* playerSequence and schedules one playComputerTurn; every                *)
(* playComputerTurn appends exactly one signal and schedules the playback  *)
(* of the whole sequence, the step at index i after (i + 1) * 600 ms.  In  *)
(* the scenario computerSequence = [red, blue], presses red then blue, the *)
(* counter goes up by one (from 2 to 3 when it equalled the length of the  *)
(* sequence) and the playback that follows has 3 signals.                  *)
(***************************************************************************)
C4_RoundAdvances ==
    [][/\ (PressCompletesRound /\ Num(Len(computerSequence)) # maxRoundCount) =>
             /\ roundCount' = roundCount + 1
             /\ playerSequence' = <<>>
             /\ computerSequence' = computerSequence
             /\ Cardinality(Pending(timers', "computerTurn"))
                   = Cardinality(PendingOf("computerTurn")) + 1
             /\ timers'[Len(timers')].kind = "computerTurn"
             /\ timers'[Len(timers')].rem = Ticks(NextTurnMs)
       /\ "playComputerTurn" \in obs'.called =>
             LET before == IF obs'.op = "startButtonHandler" THEN <<>>
                           ELSE computerSequence
                 n == Len(computerSequence')
             IN  /\ n = Len(before) + 1
                 /\ SubSeq(computerSequence', 1, n - 1) = before
                 /\ computerSequence'[n] \in PadColors
                 /\ {<<timers'[i].index, timers'[i].color, timers'[i].rem>> :
                        i \in StepsOf(timers', obs'.turn)}
                      = {<<k - 1, computerSequence'[k], Ticks(k * StepMs)>> :
                            k \in 1..n}
                 /\ (before = <<"red", "blue">> => n = 3)
       /\ C4_Scenario =>
             /\ roundCount' = roundCount + 1
             /\ (roundCount = Len(computerSequence) => roundCount' = 3)]_vars

\* C4 as stated: in the scenario computerSequence = [red, blue], presses red
\* then blue, the round counter increments to 2.
C4_ScenarioCountsTwo == [][C4_Scenario => roundCount' = 2]_vars

\* The computer turn after the scenario, with no other turn in flight:
\* round 3, three signals to play.
C4_Witness ==
    /\ obs.op = "timer:computerTurn"
    /\ roundCount = 3
    /\ Len(computerSequence) = 3
    /\ SubSeq(computerSequence, 1, 2) = <<"red", "blue">>
    /\ Cardinality(StepsOf(timers, obs.turn)) = 3
    /\ PendingOf("step") = StepsOf(timers, obs.turn)
    /\ Cardinality(PendingOf("handoff")) = 1
    /\ PendingOf("computerTurn") = {}

(***************************************************************************)
(* C5: round completion is idempotent per round: while the                 *)
(* playComputerTurn scheduled by checkRound is pending, a pad press        *)
(* neither increments roundCount again nor schedules another computer      *)
(* turn.                                                                   *)
(***************************************************************************)
C5_RoundCompletionIdempotent ==
    [][(PendingOf("computerTurn") # {} /\ obs'.op = "padHandler") =>
          /\ roundCount' <= roundCount
          /\ Cardinality(Pending(timers', "computerTurn"))
                <= Cardinality(PendingOf("computerTurn"))]_vars

(***************************************************************************)
(* C6: right after startButtonHandler, maxRoundCount = 8, roundCount = 1,  *)
(* playerSequence is empty, computerSequence has length 1 and the pads are *)
(* unclickable; and the pads stay unclickable for as long as the handoff   *)
(* of the computer turn the start began is pending.                        *)
(***************************************************************************)
C6_StartState ==
    /\ obs.op = "startButtonHandler" =>
          /\ maxRoundCount = Num(8)
          /\ roundCount = 1
          /\ playerSequence = <<>>
          /\ Len(computerSequence) = 1
          /\ unclickable
    /\ (/\ obs.turnBy = "startButtonHandler"
        /\ \E i \in PendingOf("handoff") : timers[i].turn = obs.turn) =>
          unclickable

(***************************************************************************)
(* C7: setLevel(L) returns and stores 8, 14, 20, 31 for L = 1, 2, 3, 4,    *)
(* uses level 1 without an argument, and for every other level returns the *)
(* validation message.                                                     *)
(***************************************************************************)
C7_SetLevelMapping ==
    obs.op = "setLevel" =>
       LET L == IF obs.arg = Undefined THEN Num(1) ELSE obs.arg
           valid == {Num(1), Num(2), Num(3), Num(4)}
           rounds == CASE L = Num(1) -> 8 [] L = Num(2) -> 14
                       [] L = Num(3) -> 20 [] L = Num(4) -> 31
       IN  IF L \in valid
           THEN obs.ret = Num(rounds) /\ maxRoundCount = Num(rounds)
           ELSE obs.ret = Str(LevelMessage)

(***************************************************************************)
(* C8: a pad press changes game state only during the player's turn: in    *)
(* Idle, during computer playback and in the delay before the next         *)
(* computer turn, padHandler leaves the four game variables unchanged and  *)
(* calls neither checkRound nor resetGame.                                 *)
(***************************************************************************)
C8_PressOnlyInPlayerTurn ==
    [][(obs'.op = "padHandler" /\ (Idle \/ InPlayback \/ InDelay)) =>
          /\ UNCHANGED GameVars
          /\ "checkRound" \notin obs'.called
          /\ "resetGame" \notin obs'.called]_vars

(***************************************************************************)
(* C9: a callback scheduled before a resetGame that fires after it leaves  *)
(* the four game variables unchanged.                                      *)
(***************************************************************************)
C9_StaleCallbacksHarmless == [][obs'.timer.stale => UNCHANGED GameVars]_vars

(***************************************************************************)
(* C10: the playback steps of a computer turn fire in computerSequence     *)
(* order, its handoff fires only after all of its steps, and the pads are  *)
(* never clickable while a playback step is pending.                       *)
(***************************************************************************)
C10_PlaybackThenHandoff ==
    /\ obs.timer.kind = "step" =>
          \A i \in StepsOf(timers, obs.timer.turn) : timers[i].index > obs.timer.index
    /\ obs.timer.kind = "handoff" => StepsOf(timers, obs.timer.turn) = {}
    /\ ~unclickable => PendingOf("step") = {}

\* A game is in progress: the start button was pressed and no resetGame has
\* run since (startButtonHandler hides the button, only resetGame shows it).
InGame == startHidden

\* The step taken begins the player's turn: a handoff callback ran.
PlayerTurnBegins == obs'.op = "timer:handoff"

(***************************************************************************)
(* C11: within a game (from a start to the next game over)                 *)
(* computerSequence changes only by one signal appended at its end, and    *)
(* whenever the player's turn begins its length equals roundCount.         *)
(***************************************************************************)
C11_AppendOnlyOnePerRound ==
    [][/\ (InGame /\ InGame' /\ computerSequence' # computerSequence) =>
             /\ Len(computerSequence') = Len(computerSequence) + 1
             /\ SubSeq(computerSequence', 1, Len(computerSequence))
                   = computerSequence
       /\ (PlayerTurnBegins /\ InGame') =>
             Len(computerSequence') = roundCount']_vars

\* The first half of C11 alone: within a game computerSequence only grows,
\* by one signal at its end.
C11_AppendOnly ==
    [][(InGame /\ InGame' /\ computerSequence' # computerSequence) =>
          /\ Len(computerSequence') = Len(computerSequence) + 1
          /\ SubSeq(computerSequence', 1, Len(computerSequence))
                = computerSequence]_vars


(***************************************************************************)
(* C12: every press of a pad is evaluated at once, at the position         *)
(* i = len(playerSequence) before the press, with exactly one of three     *)
(* outcomes: rejected (resetGame with the loss message) iff the color      *)
(* differs from computerSequence[i] or i is past its end; otherwise round  *)
(* complete (checkRound runs) iff i + 1 = len(computerSequence); otherwise *)
(* the press is appended and nothing else of the game changes.             *)
(***************************************************************************)
C12_PressOutcomes ==
    [][/\ (obs'.op = "padHandler" /\ Pressed \in PadColors) => PressEvaluated
       /\ PressEvaluated =>
             LET i == Len(playerSequence)
                 rejected == obs'.alert = LossMessage
                 roundComplete == "checkRound" \in obs'.called
                 continues == /\ "resetGame" \notin obs'.called
                              /\ "checkRound" \notin obs'.called
                              /\ playerSequence' = Append(playerSequence, Pressed)
                              /\ UNCHANGED <<computerSequence, roundCount,
                                             maxRoundCount>>
             IN  /\ obs'.index = i
                 /\ rejected <=> PressMismatches
                 /\ rejected => ~roundComplete /\ "resetGame" \in obs'.called
                 /\ ~rejected => (roundComplete <=> i + 1 = Len(computerSequence))
                 /\ (~rejected /\ ~roundComplete) => continues
                 /\ continues => (~rejected /\ ~roundComplete)]_vars

\* A press was accepted and the round goes on: it matched at its position
\* and was not the last of the round.
C12_Witness ==
    /\ obs.op = "padHandler"
    /\ "checkPress" \in obs.called
    /\ obs.called \cap {"resetGame", "checkRound"} = {}
    /\ obs.remainingPresses >= 1
    /\ playerSequence # <<>>
    /\ roundCount = Len(computerSequence)
    /\ PendingOf("step") \cup PendingOf("handoff") = {}

\* The computer turns that can be pending at once are numbered from 1.
TurnIds == 1..(MaxInFlight + 1)

\* The operation just done ran playComputerTurn, as the turn numbered k.
ComputerTurnRan(k) == "playComputerTurn" \in obs.called /\ obs.turn = k

\* The operation just done is the handoff of the turn numbered k, and player
\* input is enabled.
HandedOver(k) ==
    /\ obs.op = "timer:handoff"
    /\ obs.timer.turn = k
    /\ "playHumanTurn" \in obs.called
    /\ ~unclickable

(***************************************************************************)
(* C13: with the timer callbacks served, every playComputerTurn (from a    *)
(* start or after a completed round) is eventually followed by its         *)
(* handoff, which enables player input; a game over in between does not    *)
(* prevent it.                                                             *)
(***************************************************************************)
C13_HandoffEventually == \A k \in TurnIds : ComputerTurnRan(k) ~> HandedOver(k)

\* The handoff of the computer turn of a later round of a game has run:
\* the player's turn of round 2 or more begins.
C13_Witness ==
    /\ obs.op = "timer:handoff"
    /\ ~obs.timer.stale
    /\ obs.turnBy = "timer:computerTurn"
    /\ obs.timer.turn = obs.turn
    /\ ~unclickable
    /\ roundCount >= 2
    /\ roundCount = Len(computerSequence)

\* Everything of the page and the game but the record of the last operation.
PageVars ==
    <<startHidden, statusHidden, unclickable, heading, status, activated, timers>>

(***************************************************************************)
(* C14: a pad event whose color is missing or is not a pad's color is a    *)
(* no-op: padHandler returns (undefined) without calling checkPress or     *)
(* anything else, and the four game variables, the page and the pending    *)
(* timers are unchanged.                                                   *)
(***************************************************************************)
C14_UnknownSignalNoOp ==
    [][(obs'.op = "padHandler" /\ Pressed \notin PadColors) =>
          /\ UNCHANGED GameVars
          /\ UNCHANGED PageVars
          /\ obs'.called = {}
          /\ obs'.ret = Undefined
          /\ obs'.alert = ""
          /\ ~obs'.soundErr]_vars

\* A click on a target with an unknown color arrived in the player's turn of
\* a running game, with presses still owed.
C14_Witness ==
    /\ obs.op = "padHandler"
    /\ obs.arg = Str("purple")
    /\ InGame
    /\ ~unclickable
    /\ Len(playerSequence) < Len(computerSequence)

\* The level identifiers: 1 to 4, and no argument (level 1).
ValidLevels == {Undefined} \cup {Num(n) : n \in 1..4}

RoundCounts == {Num(8), Num(14), Num(20), Num(31)}

(***************************************************************************)
(* C15: setLevel with a level that is not 1, 2, 3 or 4 returns the         *)
(* validation message and changes neither maxRoundCount nor any other      *)
(* state; and whenever a game is in progress after a start, maxRoundCount  *)
(* is one of 8, 14, 20, 31.                                                *)
(***************************************************************************)
C15_InvalidLevelRejected ==
    [][/\ (obs'.op = "setLevel" /\ obs'.arg \notin ValidLevels) =>
             /\ obs'.ret = Str(LevelMessage)
             /\ UNCHANGED GameVars
             /\ UNCHANGED PageVars
       /\ InGame' => maxRoundCount' \in RoundCounts]_vars

\* A state with the note of a sound failure taken out.
Silenced(s) == [s EXCEPT !.obs.soundErr = FALSE]

\* The callbacks that drive the turns: playback steps, handoffs and delayed
\* computer turns.
TurnTimers(ts) ==
    {ts[i] : i \in Pending(ts, "step") \cup Pending(ts, "handoff")
                      \cup Pending(ts, "computerTurn")}

(***************************************************************************)
(* C16: a failure of sound.play() changes nothing but the sound.  In       *)
(* padHandler the press is still evaluated by checkPress, with the very    *)
(* outcome of the same press with a working sound; in activatePad (a       *)
(* playback step) the pad still flashes and every other pending playback   *)
(* step, handoff and computer turn stays pending, exactly as with a        *)
(* working sound.                                                          *)
(***************************************************************************)
C16_SoundFailureHarmless ==
    [][/\ (obs'.op = "padHandler" /\ obs'.soundErr) =>
             /\ PressEvaluated
             /\ Silenced(Cur') =
                   Silenced(padHandler(Begin("padHandler", obs'.arg), Pressed, TRUE))
       /\ (obs'.op = "timer:step" /\ obs'.soundErr) =>
             /\ Silenced(Cur') =
                   Silenced(activatePad(Fired("step"), timers[NextDue].color, TRUE))
             /\ TurnTimers(timers') = TurnTimers(Without(timers, NextDue))
             /\ "activatePad" \in obs'.called]_vars

\* The sound failed on the press that completed a round, and the round was
\* still completed.
C16_Witness ==
    /\ obs.op = "padHandler"
    /\ obs.soundErr
    /\ "checkRound" \in obs.called
    /\ obs.alert = ""
    /\ roundCount >= 2
    /\ PendingOf("computerTurn") # {}

\* The items of a collection.
Members(collection) == {collection[i] : i \in 1..Len(collection)}

(***************************************************************************)
(* C17: getRandomItem returns null for an empty collection and a member of *)
(* the collection otherwise, and changes neither computerSequence nor any  *)
(* other state; and every element of computerSequence is one of the four   *)
(* pad colors red, green, blue, yellow.                                    *)
(***************************************************************************)
C17_RandomItemIsMember ==
    [][/\ obs'.op = "getRandomItem" =>
             /\ IF obs'.items = <<>> THEN obs'.ret = Obj("null")
                ELSE /\ obs'.ret.type = "string"
                     /\ obs'.ret.str \in Members(obs'.items)
             /\ UNCHANGED GameVars
             /\ UNCHANGED PageVars
       /\ Members(computerSequence') \subseteq {"red", "green", "blue", "yellow"}
       /\ "playComputerTurn" \in obs'.called =>
             computerSequence'[Len(computerSequence')] \in Members(pads)]_vars

\* getRandomItem was called with an empty collection in the middle of a
\* game and returned null.
C17_Witness ==
    /\ obs.op = "getRandomItem"
    /\ obs.items = <<>>
    /\ obs.ret = Obj("null")
    /\ InGame
    /\ Len(computerSequence) >= 2

(***************************************************************************)
(* C18: while a game is in progress (after a start and before the next     *)
(* resetGame) computerSequence is no longer than maxRoundCount, so that    *)
(* the win test len(computerSequence) === maxRoundCount of checkRound is   *)
(* met before the sequence can grow past it.                               *)
(***************************************************************************)
C18_SequenceWithinMax ==
    InGame => /\ maxRoundCount.type = "number"
              /\ Len(computerSequence) <= maxRoundCount.num

(***************************************************************************)
(* C19: at most one computer turn is in flight: the pending delayed        *)
(* playComputerTurn callbacks and the pending handoffs are never more than *)
(* one in total, and playComputerTurn never runs while a playback step or  *)
(* the handoff of an earlier playComputerTurn is pending.                  *)
(***************************************************************************)
C19_OneComputerTurnInFlight ==
    [][/\ Cardinality(Pending(timers', "computerTurn"))
             + Cardinality(Pending(timers', "handoff")) <= 1
       /\ "playComputerTurn" \in obs'.called =>
             PendingOf("step") \cup PendingOf("handoff") = {}]_vars

(***************************************************************************)
(* C20: the start button is hidden exactly while roundCount >= 1, and      *)
(* while it is shown (before the first start, and from a game over to the  *)
(* next start) roundCount = 0, maxRoundCount = 0 and both sequences are    *)
(* empty.                                                                  *)
(***************************************************************************)
C20_StartShownIffIdle ==
    /\ startHidden <=> roundCount >= 1
    /\ ~startHidden => InitialGame

=============================================================================
